---- MODULE Spec2Model ----
(***************************************************************************)
(* A model of takein (src/main.go): the path tokenizer parseEnvs, the      *)
(* destination resolver destDirectory, Program.AnalyzeInput, Program.Copy  *)
(* and the frame handler UI.HandleEvent / UI.Layout that drives them.      *)
(*                                                                         *)
(* A Go string is a sequence of one-character strings, so that slicing,    *)
(* searching, trimming and path cleaning are computed, not assumed.        *)
(* Presentation state (Notifier text, colours, the rich-text report) and   *)
(* the saving of the config file are left out: no operation modelled here  *)
(* reads them.                                                             *)
(***************************************************************************)
EXTENDS Integers, Sequences, FiniteSets, TLC

VARIABLES
    Program,   \* the fields of *Program that AnalyzeInput, Copy and HandleEvent write
    UI,        \* the editors' texts and the method radio of *UI
    fs,        \* the filesystem: path (sequence of names) -> node
    last,      \* what the last frame's AnalyzeInput / Copy calls did and returned
    tok,       \* one call of parseEnvs: its arguments and its result
    dst,       \* one call of destDirectory: its arguments and its result
    cnt        \* one counting walk of a directory: its tree, its count, its result

mainVars == <<Program, UI, fs, last>>
vars == <<Program, UI, fs, last, tok, dst, cnt>>

------------------------------------------------------------------------------
(* Strings *)

\* the characters of the model in byte order (sort.Strings compares bytes)
Chars == <<"\n", "\r", " ", "$", "-", ".", "/", ":", "A", "B", "D", "E", "N", "T", "V",
           "Z", "_", "a", "b", "c", "d", "e", "f", "g", "h", "i", "l", "n", "o", "s", "x",
           "{", "}">>

Ord(c) == CHOOSE i \in 1..Len(Chars) : Chars[i] = c

IsSpace(c) == c \in {" ", "\n", "\r"}

IsAlphaNum(c) ==
    \/ c = "_"
    \/ Ord("A") <= Ord(c) /\ Ord(c) <= Ord("Z")
    \/ Ord("a") <= Ord(c) /\ Ord(c) <= Ord("x")

IsShellSpecialVar(c) == c \in {"$", "-"}

\* s[i:] and s[:i] with Go's 0-based offsets
From(s, i) == SubSeq(s, i + 1, Len(s))
Upto(s, i) == SubSeq(s, 1, i)

HasPrefix(s, p) == Len(s) >= Len(p) /\ SubSeq(s, 1, Len(p)) = p

TrimPrefix(s, p) == IF HasPrefix(s, p) THEN From(s, Len(p)) ELSE s

\* the least element of a set of numbers, none for the empty set
MinOr(S, none) == IF S = {} THEN none ELSE CHOOSE i \in S : \A j \in S : i <= j

\* the greatest element of a set of numbers, none for the empty set
MaxOr(S, none) == IF S = {} THEN none ELSE CHOOSE i \in S : \A j \in S : j <= i

\* strings.Index: the 0-based offset of the first occurrence of sep in s, or -1
Index(s, sep) ==
    MinOr({i \in 0..(Len(s) - Len(sep)) : SubSeq(s, i + 1, i + Len(sep)) = sep}, -1)

RECURSIVE TrimLeft(_)
TrimLeft(s) == IF s # <<>> /\ IsSpace(Head(s)) THEN TrimLeft(Tail(s)) ELSE s

RECURSIVE TrimRight(_)
TrimRight(s) ==
    IF s # <<>> /\ IsSpace(s[Len(s)]) THEN TrimRight(Upto(s, Len(s) - 1)) ELSE s

TrimSpace(s) == TrimRight(TrimLeft(s))

\* strings.Replace(s, old, new, -1); i is the offset of the first old in s
RECURSIVE ReplaceAll(_, _, _)
replaceAt(s, old, new, i) ==
    IF i < 0 THEN s
    ELSE Upto(s, i) \o new \o ReplaceAll(From(s, i + Len(old)), old, new)

ReplaceAll(s, old, new) == replaceAt(s, old, new, Index(s, old))

\* strings.Split(s, sep) for a non-empty sep; i is the offset of the first sep
RECURSIVE Split(_, _)
splitAt(s, sep, i) ==
    IF i < 0 THEN <<s>>
    ELSE <<Upto(s, i)>> \o Split(From(s, i + Len(sep)), sep)

Split(s, sep) == splitAt(s, sep, Index(s, sep))

\* strings.Fields: the maximal runs of non-space characters; t has no
\* leading space and its first field ends before offset e
RECURSIVE Fields(_)
fieldsCut(t, e) == <<Upto(t, e)>> \o Fields(From(t, e))

fieldsOf(t) ==
    IF t = <<>> THEN <<>>
    ELSE fieldsCut(t, MinOr({i \in 0..(Len(t) - 1) : IsSpace(t[i + 1])}, Len(t)))

Fields(s) == fieldsOf(TrimLeft(s))

\* byte-wise s < t
RECURSIVE Less(_, _)
Less(s, t) ==
    IF t = <<>> THEN FALSE
    ELSE IF s = <<>> THEN TRUE
    ELSE IF Head(s) # Head(t) THEN Ord(Head(s)) < Ord(Head(t))
    ELSE Less(Tail(s), Tail(t))

RECURSIVE Insert(_, _)
Insert(x, sorted) ==
    IF sorted = <<>> THEN <<x>>
    ELSE IF Less(x, Head(sorted)) THEN <<x>> \o sorted
    ELSE <<Head(sorted)>> \o Insert(x, Tail(sorted))

\* sort.Strings
RECURSIVE SortStrings(_)
SortStrings(xs) == IF xs = <<>> THEN <<>> ELSE Insert(Head(xs), SortStrings(Tail(xs)))

RECURSIVE JoinWith(_, _)
JoinWith(segs, sep) ==
    IF segs = <<>> THEN <<>>
    ELSE IF Len(segs) = 1 THEN segs[1]
    ELSE segs[1] \o sep \o JoinWith(Tail(segs), sep)

------------------------------------------------------------------------------
(* parseEnvs *)

\* lines 723-732 for one separator found at offset i (-1: not found), cut
\* being [idx, cutter] so far
tryCut(sep, i, cut) ==
    IF TrimSpace(sep) = <<>> \/ i < 0 \/ i >= cut.idx THEN cut
    ELSE [idx |-> i, cutter |-> sep]

\* lines 722-733: [idx, cutter] after the separators from the k-th on
RECURSIVE nextCut(_, _, _, _)
nextCut(remain, seps, k, cut) ==
    IF k > Len(seps) THEN cut
    ELSE nextCut(remain, seps, k + 1, tryCut(seps[k], Index(remain, seps[k]), cut))

\* lines 719-736: the fragments of src
RECURSIVE splitVals(_, _)
cutVals(remain, seps, cut) ==
    <<Upto(remain, cut.idx)>> \o splitVals(From(remain, cut.idx + Len(cut.cutter)), seps)

splitVals(remain, seps) ==
    IF Len(remain) = 0 THEN <<>>
    ELSE cutVals(remain, seps,
                 nextCut(remain, seps, 1, [idx |-> Len(remain), cutter |-> <<>>]))

\* lines 719-736: the number of passes of the loop that cut at a separator
RECURSIVE sepsConsumed(_, _)
consumedFrom(remain, seps, cut) ==
    (IF cut.cutter # <<>> THEN 1 ELSE 0)
    + sepsConsumed(From(remain, cut.idx + Len(cut.cutter)), seps)

sepsConsumed(remain, seps) ==
    IF Len(remain) = 0 THEN 0
    ELSE consumedFrom(remain, seps,
                      nextCut(remain, seps, 1, [idx |-> Len(remain), cutter |-> <<>>]))

Divider == <<".", ".", ".">>
Discard == <<"_">>

\* lines 762-779: which fragment (1-based) each key receives; a later write to
\* the same key replaces the earlier one
RECURSIVE bindLeft(_, _, _)
bindLeft(envs, leftKeys, i) ==
    IF i > Len(leftKeys) THEN envs
    ELSE LET k == leftKeys[i]
         IN  bindLeft(IF k = Discard THEN envs
                      ELSE [x \in (DOMAIN envs) \cup {k} |-> IF x = k THEN i ELSE envs[x]],
                      leftKeys, i + 1)

\* lines 771-779 left out: no key right of the divider is bound
bindRightNone(envs, rightKeys, n, i) == envs

RECURSIVE bindRight(_, _, _, _)
bindRight(envs, rightKeys, n, i) ==
    IF i >= Len(rightKeys) THEN envs
    ELSE LET k == rightKeys[Len(rightKeys) - i]
         IN  bindRight(IF k = Discard THEN envs
                       ELSE [x \in (DOMAIN envs) \cup {k} |-> IF x = k THEN n - i ELSE envs[x]],
                       rightKeys, n, i + 1)

EmptyMap == [x \in {} |-> <<>>]

\* lines 762-779 for the divider at idx (0: no divider)
bindKeys(vals, keys, idx) ==
    bindRight(bindLeft(EmptyMap, IF idx = 0 THEN keys ELSE Upto(keys, idx - 1), 1),
              IF idx = 0 THEN <<>> ELSE From(keys, idx), Len(vals), 0)

\* lines 737-761 for the dividers at the indices divs
checkKeys(vals, keys, divs) ==
    IF Cardinality(divs) > 1 THEN [err |-> "multiple key divider", bind |-> EmptyMap]
    ELSE IF divs = {} /\ Len(vals) > Len(keys)
        THEN [err |-> "too many values", bind |-> EmptyMap]
    ELSE IF divs = {} /\ Len(vals) < Len(keys)
        THEN [err |-> "not enough values", bind |-> EmptyMap]
    ELSE IF divs # {} /\ Len(vals) < Len(keys) - 1
        THEN [err |-> "not enough values", bind |-> EmptyMap]
    ELSE [err |-> "nil", bind |-> bindKeys(vals, keys, MinOr(divs, 0))]

\* lines 737-780 on the fragments: [err, bind]; bind maps key -> fragment index
parseKeys(vals, keys) == checkKeys(vals, keys, {i \in 1..Len(keys) : keys[i] = Divider})

\* the result of parseEnvs for the fragments vals and their binding r
envsOf(vals, r) ==
    [err |-> r.err, vals |-> vals, bind |-> r.bind,
     envs |-> [k \in DOMAIN r.bind |-> vals[r.bind[k]]]]

parseVals(vals, keys) == envsOf(vals, parseKeys(vals, keys))

\* parseEnvs(src, seps, keys): [err, vals, bind, envs]
parseEnvs(src, seps, keys) == parseVals(splitVals(src, seps), keys)

------------------------------------------------------------------------------
(* path/filepath *)

Slash == <<"/">>
Dot == <<".">>
DotDot == <<".", ".">>

\* the elements Clean keeps, .. having removed the element before it
RECURSIVE cleanElems(_, _, _)
cleanElems(comps, out, rooted) ==
    IF comps = <<>> THEN out
    ELSE LET c == Head(comps)
         IN  IF c = <<>> \/ c = Dot THEN cleanElems(Tail(comps), out, rooted)
             ELSE IF c = DotDot
                 THEN IF out # <<>> /\ out[Len(out)] # DotDot
                          THEN cleanElems(Tail(comps), Upto(out, Len(out) - 1), rooted)
                      ELSE IF rooted THEN cleanElems(Tail(comps), out, rooted)
                      ELSE cleanElems(Tail(comps), Append(out, c), rooted)
             ELSE cleanElems(Tail(comps), Append(out, c), rooted)

\* filepath.Clean
cleanJoin(rooted, body) ==
    IF rooted THEN Slash \o body
    ELSE IF body = <<>> THEN Dot ELSE body

cleanRooted(path, rooted) ==
    cleanJoin(rooted, JoinWith(cleanElems(Split(path, Slash), <<>>, rooted), Slash))

Clean(path) == cleanRooted(path, HasPrefix(path, Slash))

RECURSIVE stripSlashes(_)
stripSlashes(path) ==
    IF path # <<>> /\ path[Len(path)] = "/" THEN stripSlashes(Upto(path, Len(path) - 1))
    ELSE path

\* the 0-based offset of the last "/" of path, or -1
LastSlash(path) == MaxOr({i \in 0..(Len(path) - 1) : path[i + 1] = "/"}, -1)

\* filepath.Base
orSlash(q) == IF q = <<>> THEN Slash ELSE q

baseOf(p) == orSlash(From(p, LastSlash(p) + 1))

Base(path) == IF path = <<>> THEN Dot ELSE baseOf(stripSlashes(path))

\* filepath.Dir
Dir(path) == Clean(Upto(path, LastSlash(path) + 1))

\* filepath.Join(a, b)
Join(a, b) ==
    IF a # <<>> THEN Clean(a \o Slash \o b)
    ELSE IF b # <<>> THEN Clean(b)
    ELSE <<>>

\* filepath.IsAbs
IsAbs(path) == HasPrefix(path, Slash)

------------------------------------------------------------------------------
(* os.Expand and destDirectory *)

\* os.getShellName(s) for a non-empty s: <<name, width>>
braced(s, c) ==
    IF c = 0 THEN <<<<>>, 1>>
    ELSE IF c = 2 THEN <<<<>>, 2>>
    ELSE <<SubSeq(s, 2, c - 1), c>>

getShellName(s) ==
    IF s[1] = "{" THEN
        IF Len(s) > 2 /\ IsShellSpecialVar(s[2]) /\ s[3] = "}" THEN <<SubSeq(s, 2, 2), 3>>
        ELSE braced(s, MinOr({i \in 2..Len(s) : s[i] = "}"}, 0))
    ELSE IF IsShellSpecialVar(s[1]) THEN <<SubSeq(s, 1, 1), 1>>
    ELSE <<Upto(s, MinOr({i \in 0..(Len(s) - 1) : ~IsAlphaNum(s[i + 1])}, Len(s))),
           MinOr({i \in 0..(Len(s) - 1) : ~IsAlphaNum(s[i + 1])}, Len(s))>>

\* what the reference <<name, width>> is replaced with
expandPiece(nw, env) ==
    IF nw[1] = <<>> /\ nw[2] > 0 THEN <<>>
    ELSE IF nw[1] = <<>> THEN <<"$">>
    ELSE IF nw[1] \in DOMAIN env THEN env[nw[1]] ELSE <<>>

\* os.Expand(s, mapping) with mapping = the closure of destDirectory:
\* [out: the expanded text, refs: the names handed to mapping, in order]
RECURSIVE Expand(_, _)
expandJoin(s, env, j, nw, rest) ==
    [out |-> Upto(s, j - 1) \o expandPiece(nw, env) \o rest.out,
     refs |-> (IF nw[1] = <<>> THEN <<>> ELSE <<nw[1]>>) \o rest.refs]

expandName(s, env, j, nw) == expandJoin(s, env, j, nw, Expand(From(s, j + nw[2]), env))

\* j is the 1-based index of the first "$" before the last character, or 0
expandAt(s, env, j) ==
    IF j = 0 THEN [out |-> s, refs |-> <<>>]
    ELSE expandName(s, env, j, getShellName(From(s, j)))

Expand(s, env) == expandAt(s, env, MinOr({j \in 1..(Len(s) - 1) : s[j] = "$"}, 0))

\* lines 789-797: the value of `unknown` after the expansion; every absent
\* reference assigns it, so the last one stays
RECURSIVE unknownAfter(_, _, _)
unknownAfter(refs, env, unknown) ==
    IF refs = <<>> THEN unknown
    ELSE unknownAfter(Tail(refs), env,
                      IF Head(refs) \in DOMAIN env THEN unknown ELSE <<"$">> \o Head(refs))

\* lines 798-801 for the expansion e and the value of `unknown`
destResult(e, unknown) ==
    IF unknown # <<>>
        THEN [err |-> "unknown environ variable", unknown |-> unknown, destDir |-> <<>>]
    ELSE [err |-> "nil", unknown |-> <<>>, destDir |-> e.out]

destExpanded(e, env) == destResult(e, unknownAfter(e.refs, env, <<>>))

\* destDirectory(src, destPattern, env): [err, unknown, destDir]
destDirectory(src, destPattern, env) ==
    IF ~IsAbs(src) THEN [err |-> "not an absolute path", unknown |-> <<>>, destDir |-> <<>>]
    ELSE destExpanded(Expand(TrimSpace(destPattern), env), env)

------------------------------------------------------------------------------
(* The filesystem *)

\* A path is the sequence of its names; fs maps every existing path to its
\* node; <<>> is the root directory. A file node carries its inode and its
\* bytes: a hard link shares both, a copy has a new inode and the same bytes.
DirNode == [kind |-> "dir"]
FileNode(ino, data) == [kind |-> "file", ino |-> ino, data |-> data]

IsPrefix(p, q) == Len(p) <= Len(q) /\ SubSeq(q, 1, Len(p)) = p

\* the path a clean absolute path string names
Segs(str) == cleanElems(Split(str, Slash), <<>>, TRUE)

\* an operation on path fails with an I/O error while a fault covers it
Faulty(flt, op, path) == \E f \in flt : f.op = op /\ IsPrefix(f.under, path)

\* the kernel's walk along the components of a path string
RECURSIVE lookup(_, _, _)
lookup(fsys, cur, comps) ==
    IF comps = <<>> THEN [err |-> "nil", path |-> cur]
    ELSE IF fsys[cur].kind # "dir" THEN [err |-> "ENOTDIR", path |-> cur]
    ELSE LET c == Head(comps)
         IN  IF c = <<>> \/ c = Dot THEN lookup(fsys, cur, Tail(comps))
             ELSE IF c = DotDot
                 THEN lookup(fsys, IF cur = <<>> THEN cur ELSE Upto(cur, Len(cur) - 1),
                             Tail(comps))
             ELSE IF Append(cur, c) \notin DOMAIN fsys
                 THEN [err |-> "ENOENT", path |-> Append(cur, c)]
             ELSE lookup(fsys, Append(cur, c), Tail(comps))

\* os.Stat / os.Lstat (the model has no symbolic links): [err, path, isDir]
statAt(fsys, r) ==
    [err |-> r.err, path |-> r.path, isDir |-> r.err = "nil" /\ fsys[r.path].kind = "dir"]

Stat(fsys, flt, name) ==
    IF name = <<>> THEN [err |-> "ENOENT", path |-> <<>>, isDir |-> FALSE]
    ELSE IF Faulty(flt, "stat", Segs(name))
        THEN [err |-> "EIO", path |-> Segs(name), isDir |-> FALSE]
    ELSE statAt(fsys, lookup(fsys, <<>>, Split(name, Slash)))

\* the names in the directory dir
namesIn(fsys, dir) ==
    {q[Len(q)] : q \in {q \in DOMAIN fsys : Len(q) = Len(dir) + 1 /\ IsPrefix(dir, q)}}

\* the names in a directory, sorted by name as ReadDir returns them
ReadDir(fsys, dir) ==
    CHOOSE ns \in [1..Cardinality(namesIn(fsys, dir)) -> namesIn(fsys, dir)] :
        \A i, j \in DOMAIN ns : i < j => Less(ns[i], ns[j])

\* os.MkdirAll(path) for a clean absolute path, its deepest existing
\* ancestor being the first deep names of it: [err, fs]
mkdirBelow(fsys, flt, path, deep) ==
    IF fsys[Upto(path, deep)].kind # "dir" THEN [err |-> "ENOTDIR", fs |-> fsys]
    ELSE IF deep < Len(path) /\ Faulty(flt, "mkdir", path) THEN [err |-> "EIO", fs |-> fsys]
    ELSE [err |-> "nil",
          fs |-> [q \in (DOMAIN fsys) \cup {Upto(path, k) : k \in (deep + 1)..Len(path)} |->
                     IF q \in DOMAIN fsys THEN fsys[q] ELSE DirNode]]

MkdirAll(fsys, flt, path) ==
    mkdirBelow(fsys, flt, path, MaxOr({k \in 0..Len(path) : Upto(path, k) \in DOMAIN fsys}, 0))

\* os.Link(s, d), from and to being where the kernel's walks end: [err, fs]
linkAt(fsys, flt, s, d, from, to) ==
    IF Faulty(flt, "link", s) THEN [err |-> "EIO", fs |-> fsys]
    ELSE IF from.err # "nil" THEN [err |-> from.err, fs |-> fsys]
    ELSE IF fsys[from.path].kind = "dir" THEN [err |-> "EPERM", fs |-> fsys]
    ELSE IF to.err = "nil" THEN [err |-> "EEXIST", fs |-> fsys]
    ELSE IF to.err # "ENOENT" \/ to.path # d THEN [err |-> to.err, fs |-> fsys]
    ELSE [err |-> "nil", fs |-> (d :> fsys[from.path]) @@ fsys]

Link(fsys, flt, s, d) ==
    linkAt(fsys, flt, Segs(s), Segs(d),
           lookup(fsys, <<>>, Split(s, Slash)), lookup(fsys, <<>>, Split(d, Slash)))

\* copyFile(src, dest), lines 821-837: os.Open, os.Create (which truncates
\* a file that is there), ReadFrom: [err, fs]. Reading a directory fails
\* after dest has been created empty
copyAt(fsys, flt, s, d, from, to) ==
    IF Faulty(flt, "link", s) THEN [err |-> "EIO", fs |-> fsys]
    ELSE IF from.err # "nil" THEN [err |-> from.err, fs |-> fsys]
    ELSE IF to.err = "nil" /\ fsys[to.path].kind = "dir" THEN [err |-> "EISDIR", fs |-> fsys]
    ELSE IF to.err # "nil" /\ (to.err # "ENOENT" \/ to.path # d)
        THEN [err |-> to.err, fs |-> fsys]
    ELSE [err |-> IF fsys[from.path].kind = "dir" THEN "EISDIR" ELSE "nil",
          fs |-> (d :> FileNode(IF to.err = "nil" THEN fsys[to.path].ino ELSE d,
                                IF fsys[from.path].kind = "dir" THEN <<>>
                                ELSE fsys[from.path].data)) @@ fsys]

copyFile(fsys, flt, s, d) ==
    copyAt(fsys, flt, Segs(s), Segs(d),
           lookup(fsys, <<>>, Split(s, Slash)), lookup(fsys, <<>>, Split(d, Slash)))

------------------------------------------------------------------------------
(* Program.ParseEnvsFromSrc and Program.AnalyzeInput *)

\* what time.Now().Format("060102") gives during the run
Today == <<"D">>
DATE == <<"D", "A", "T", "E">>

\* m with m[k] = v, as an assignment to a Go map does
Put(m, k, v) == [x \in (DOMAIN m) \cup {k} |-> IF x = k THEN v ELSE m[x]]

\* m[k] of a Go map: the zero value zero for a key that is absent
Get(m, k, zero) == IF k \in DOMAIN m THEN m[k] ELSE zero

\* env with the entries of more added, more winning on a key of both
Merge(env, more) ==
    [k \in (DOMAIN env) \cup (DOMAIN more) |-> IF k \in DOMAIN more THEN more[k] ELSE env[k]]

\* lines 409-423 for the results of the two parseEnvs calls
mergeEnvs(pathEnv, nameEnv) ==
    IF pathEnv.err # "nil" THEN [err |-> pathEnv.err, env |-> EmptyMap]
    ELSE IF nameEnv.err # "nil" THEN [err |-> nameEnv.err, env |-> EmptyMap]
    ELSE [err |-> "nil", env |-> Merge(pathEnv.envs, nameEnv.envs)]

\* Program.ParseEnvsFromSrc(src): [err, env]
ParseEnvsFromSrc(p, src) ==
    mergeEnvs(parseEnvs(src, p.PathSeps, p.PathKeys),
              parseEnvs(Base(src), p.NameSeps, p.NameKeys))

\* line 493: the file count at which the walk stops counting
FileCountCap == 1000

\* fs.WalkDir's walkDir with the callback of lines 483-497; count is
\* p.SrcDirFileCount[src]: [count, err], err one of nil, SkipDir, EIO
RECURSIVE countWalkDir(_, _, _, _)
RECURSIVE countEntries(_, _, _, _, _)
\* the callback not counting past the cap
countWalkDirCapped(fsys, flt, path, count) ==
    IF fsys[path].kind # "dir"
        THEN [count |-> IF count >= FileCountCap THEN count ELSE count + 1,
              err |-> IF count >= FileCountCap THEN "SkipDir" ELSE "nil"]
    ELSE IF Faulty(flt, "readdir", path) THEN [count |-> count, err |-> "EIO"]
    ELSE countEntries(fsys, flt, path, ReadDir(fsys, path), count)

countWalkDir(fsys, flt, path, count) ==
    IF fsys[path].kind # "dir"
        THEN [count |-> count + 1,
              err |-> IF count + 1 > FileCountCap THEN "SkipDir" ELSE "nil"]
    ELSE IF Faulty(flt, "readdir", path) THEN [count |-> count, err |-> "EIO"]
    ELSE countEntries(fsys, flt, path, ReadDir(fsys, path), count)

\* after the first of names has been walked with the result r
countRest(fsys, flt, dir, names, r) ==
    IF r.err = "SkipDir" THEN [count |-> r.count, err |-> "nil"]
    ELSE IF r.err # "nil" THEN r
    ELSE countEntries(fsys, flt, dir, Tail(names), r.count)

countEntries(fsys, flt, dir, names, count) ==
    IF names = <<>> THEN [count |-> count, err |-> "nil"]
    ELSE countRest(fsys, flt, dir, names,
                   countWalkDir(fsys, flt, Append(dir, Head(names)), count))

\* fs.WalkDir(os.DirFS(src), ".", ...) of lines 482-497
countWalk(fsys, flt, src, count) ==
    IF Stat(fsys, flt, src).err # "nil"
        THEN [count |-> count, err |-> Stat(fsys, flt, src).err]
    ELSE countWalkDir(fsys, flt, Segs(src), count)

\* the fields AnalyzeInput clears, lines 430-438
Cleared(p) ==
    [p EXCEPT !.NotExists = <<>>, !.Invalids = <<>>, !.Srcs = <<>>,
              !.SrcIsDir = EmptyMap, !.SrcDirFileCount = EmptyMap,
              !.DestDir = EmptyMap, !.DestDirSrcs = EmptyMap,
              !.DestDirExists = EmptyMap, !.Today = Today]

\* lines 443-449: the lines that are paths
pathLines(lines) ==
    SelectSeq([i \in DOMAIN lines |->
                  TrimPrefix(lines[i], <<"f", "i", "l", "e", ":", "/", "/">>)],
              LAMBDA l : HasPrefix(l, Slash))

\* lines 440-449: the candidate paths of the text
extractPaths(text) ==
    pathLines(Split(ReplaceAll(text, <<"\r", "\n">>, <<"\n">>), <<"\n">>))

NilErr == [kind |-> "nil", path |-> <<>>]

\* lines 453-465: [p, err]; statPath is the loop body for the path src, fi
\* being what os.Stat(src) gives
RECURSIVE statPaths(_, _, _, _)
statPath(p, fsys, flt, paths, src, fi) ==
    IF fi.err # "nil" /\ fi.err # "ENOENT"
        THEN [p |-> p, err |-> [kind |-> fi.err, path |-> src]]
    ELSE IF fi.err = "ENOENT"
        THEN statPaths([p EXCEPT !.NotExists = Append(@, src)], fsys, flt, Tail(paths))
    ELSE statPaths([p EXCEPT !.Srcs = Append(@, src), !.SrcIsDir = Put(@, src, fi.isDir)],
                   fsys, flt, Tail(paths))

statPaths(p, fsys, flt, paths) ==
    IF paths = <<>> THEN [p |-> p, err |-> NilErr]
    ELSE statPath(p, fsys, flt, paths, TrimSpace(Head(paths)),
                  Stat(fsys, flt, TrimSpace(Head(paths))))

\* lines 514-519 left out: src joins no group
groupedNowhere(p, src, destDir) == p

\* lines 514-519: src joins the group of destDir
grouped(p, src, destDir) ==
    [p EXCEPT !.DestDirSrcs = Put(@, destDir, Append(Get(@, destDir, <<>>), src))]

\* lines 502-513: os.Stat(destDir), unless destDir has been examined; st is
\* what it gives
destDirChecked(p, src, destDir, st) ==
    IF destDir \in DOMAIN p.DestDirExists THEN [p |-> grouped(p, src, destDir), err |-> NilErr]
    ELSE IF st.err # "nil" /\ st.err # "ENOENT"
        THEN [p |-> p, err |-> [kind |-> st.err, path |-> src]]
    ELSE [p |-> grouped([p EXCEPT !.DestDirExists = Put(@, destDir, st.err = "nil")],
                        src, destDir),
          err |-> NilErr]

\* lines 481-501: the walk of a directory source has given walk = [count, err];
\* the callback has assigned the count of every file it saw
counted(p, src, walk) ==
    IF walk.count > 0 THEN [p EXCEPT !.SrcDirFileCount = Put(@, src, walk.count)] ELSE p

srcWalked(p, fsys, flt, src, destDir, walk) ==
    IF walk.err # "nil" /\ walk.err # "SkipDir"
        THEN [p |-> counted(p, src, walk), err |-> [kind |-> walk.err, path |-> <<>>]]
    ELSE destDirChecked(counted(p, src, walk), src, destDir, Stat(fsys, flt, destDir))

\* lines 478-519 for a source whose destination is dd = [err, unknown, destDir]
srcResolved(p, fsys, flt, src, dd) ==
    IF dd.err # "nil"
        THEN [p |-> [p EXCEPT !.Invalids =
                        Append(@, [src |-> src, reason |-> dd.err, unknown |-> dd.unknown])],
              err |-> NilErr]
    ELSE srcWalked([p EXCEPT !.DestDir = Put(@, src, dd.destDir)], fsys, flt, src, dd.destDir,
                   IF p.SrcIsDir[src]
                   THEN countWalk(fsys, flt, src, Get(p.SrcDirFileCount, src, 0))
                   ELSE [count |-> 0, err |-> "nil"])

\* lines 473-519 for one source whose environment has been parsed: [p, err]
resolveSrc(p, fsys, flt, src, env0) ==
    srcResolved(p, fsys, flt, src,
                destDirectory(src, p.DestPattern, Put(env0, DATE, p.Today)))

\* lines 468-520: [p, err]
RECURSIVE resolveSrcs(_, _, _, _)
srcDone(fsys, flt, srcs, r) ==
    IF r.err.kind # "nil" THEN r ELSE resolveSrcs(r.p, fsys, flt, Tail(srcs))

srcParsed(p, fsys, flt, srcs, pe) ==
    IF pe.err # "nil" THEN [p |-> p, err |-> [kind |-> pe.err, path |-> Head(srcs)]]
    ELSE srcDone(fsys, flt, srcs, resolveSrc(p, fsys, flt, Head(srcs), pe.env))

resolveSrcs(p, fsys, flt, srcs) ==
    IF srcs = <<>> THEN [p |-> p, err |-> NilErr]
    ELSE srcParsed(p, fsys, flt, srcs, ParseEnvsFromSrc(p, Head(srcs)))

\* lines 466-520 for the result r1 of the loop of lines 453-465
statsDone(fsys, flt, r1) ==
    IF r1.err.kind # "nil" THEN r1
    ELSE resolveSrcs([r1.p EXCEPT !.Srcs = SortStrings(@)], fsys, flt, SortStrings(r1.p.Srcs))

\* Program.AnalyzeInput(text): [p, err]
AnalyzeInput(p, fsys, flt, text) ==
    statsDone(fsys, flt, statPaths(Cleared(p), fsys, flt, extractPaths(text)))

------------------------------------------------------------------------------
(* Program.Copy *)

\* filepath.WalkDir's walkDir with the callback of lines 670-680: every file
\* s that is reached is entered in subPath with s[len(srcDir):]
RECURSIVE collectWalkDir(_, _, _, _, _, _)
RECURSIVE collectEntries(_, _, _, _, _, _, _)
collectWalkDir(fsys, flt, s, path, srcDir, subPath) ==
    IF fsys[path].kind # "dir"
        THEN [subPath |-> Put(subPath, s, From(s, Len(srcDir))), err |-> "nil"]
    ELSE IF Faulty(flt, "readdir", path) THEN [subPath |-> subPath, err |-> "EIO"]
    ELSE collectEntries(fsys, flt, s, path, ReadDir(fsys, path), srcDir, subPath)

\* after the first of names has been walked with the result r
collectRest(fsys, flt, s, dir, names, srcDir, r) ==
    IF r.err # "nil" THEN r
    ELSE collectEntries(fsys, flt, s, dir, Tail(names), srcDir, r.subPath)

collectEntries(fsys, flt, s, dir, names, srcDir, subPath) ==
    IF names = <<>> THEN [subPath |-> subPath, err |-> "nil"]
    ELSE collectRest(fsys, flt, s, dir, names, srcDir,
                     collectWalkDir(fsys, flt, Join(s, Head(names)),
                                    Append(dir, Head(names)), srcDir, subPath))

\* filepath.WalkDir(src, ...) of lines 669-680: [subPath, err]
collectWalk(fsys, flt, src, subPath) ==
    IF Stat(fsys, flt, src).err # "nil"
        THEN [subPath |-> subPath, err |-> Stat(fsys, flt, src).err]
    ELSE collectWalkDir(fsys, flt, src, Segs(src), Dir(src), subPath)

\* lines 666-684: the subPath map of one group; the error WalkDir returns is
\* dropped by Copy, walkErr keeps whether there was one
walked(acc, w) == [subPath |-> w.subPath, walkErr |-> acc.walkErr \/ w.err # "nil"]

RECURSIVE buildSubPath(_, _, _, _, _)
buildSubPath(p, fsys, flt, srcs, acc) ==
    IF srcs = <<>> THEN acc
    ELSE IF p.SrcIsDir[Head(srcs)]
        THEN buildSubPath(p, fsys, flt, Tail(srcs),
                          walked(acc, collectWalk(fsys, flt, Head(srcs), acc.subPath)))
    ELSE buildSubPath(p, fsys, flt, Tail(srcs),
                      [acc EXCEPT !.subPath = Put(@, Head(srcs), Base(Head(srcs)))])

\* lines 655-658: the function copyFunc is bound to
copyFunc(method, fsys, flt, s, d) ==
    IF method = "copy" THEN copyFile(fsys, flt, s, d) ELSE Link(fsys, flt, s, d)

\* what copyFunc is called: "copy" for copyFile, "link" for os.Link
copyFuncName(method) == IF method = "copy" THEN "copy" ELSE "link"

\* the skip of lines 699-702 left out: no pair is ever skipped
destExistsNever(lstatErr) == FALSE

\* lines 699-706: whether the pair is skipped, given os.Lstat(d)'s error
destExists(lstatErr) == lstatErr = "nil"

\* what is recorded of one pair: the source s, the destination d, whether
\* d was there before, and what was done (skip, link, copy or fail)
Ent(fsys, destDir, s, sub, d, act) ==
    [s |-> s, sub |-> sub, destDir |-> destDir, d |-> d,
     existed |-> Segs(d) \in DOMAIN fsys, act |-> act]

\* lines 707-709: copyFunc(s, d) has given cp
pairCopied(p, s, ent, cp) ==
    IF cp.err # "nil" THEN [fs |-> cp.fs, err |-> [kind |-> cp.err, path |-> s], ent |-> ent]
    ELSE [fs |-> cp.fs, err |-> NilErr, ent |-> [ent EXCEPT !.act = copyFuncName(p.Method)]]

\* lines 699-709: os.Lstat(d) has given ls
pairChecked(p, fsys, flt, s, d, ent, ls) ==
    IF destExists(ls.err)
        THEN [fs |-> fsys, err |-> NilErr, ent |-> [ent EXCEPT !.act = "skip"]]
    ELSE IF ls.err # "nil" /\ ls.err # "ENOENT"
        THEN [fs |-> fsys, err |-> [kind |-> ls.err, path |-> s], ent |-> ent]
    ELSE pairCopied(p, s, ent, copyFunc(p.Method, fsys, flt, s, d))

\* lines 693-709: os.MkdirAll(dDir), where it was called, has given mk
pairMade(p, flt, s, d, dDir, ent, mk) ==
    IF mk.err # "nil"
        THEN [fs |-> mk.fs, err |-> [kind |-> "make dirs", path |-> dDir], ent |-> ent]
    ELSE pairChecked(p, mk.fs, flt, s, d, ent, Stat(mk.fs, flt, d))

\* lines 689-709: os.Stat(dDir) has given st
pairStatted(p, fsys, flt, s, d, dDir, ent, st) ==
    IF st.err # "nil" /\ st.err # "ENOENT"
        THEN [fs |-> fsys, err |-> [kind |-> st.err, path |-> dDir], ent |-> ent]
    ELSE pairMade(p, flt, s, d, dDir, ent,
                  IF st.err = "ENOENT" THEN MkdirAll(fsys, flt, Segs(dDir))
                  ELSE [err |-> "nil", fs |-> fsys])

pairTo(p, fsys, flt, destDir, s, sub, d) ==
    pairStatted(p, fsys, flt, s, d, Dir(d), Ent(fsys, destDir, s, sub, d, "fail"),
                Stat(fsys, flt, Dir(d)))

\* lines 687-710 for one pair: [fs, err, ent]; ent records what was done
copyPair(p, fsys, flt, destDir, s, sub) ==
    pairTo(p, fsys, flt, destDir, s, sub, Join(destDir, sub))

\* range over subPath (line 686) visits the pairs in any order: the states
\* [fs, err, log, todo] reached when every visit order has run to its end
pairsDone(st) == st.err.kind # "nil" \/ st.todo = {}

\* the state after the pair of s has been handled with the result r
pairVisited(st, s, r) ==
    [fs |-> r.fs, err |-> r.err, log |-> st.log \cup {r.ent},
     walkErr |-> st.walkErr, todo |-> st.todo \ {s}]

RECURSIVE runPairs(_, _, _, _, _)
runPairs(states, p, flt, destDir, subPath) ==
    IF \A st \in states : pairsDone(st) THEN states
    ELSE runPairs(UNION {IF pairsDone(st) THEN {st}
                         ELSE {pairVisited(st, s, copyPair(p, st.fs, flt, destDir, s,
                                                           subPath[s]))
                               : s \in st.todo}
                         : st \in states},
                  p, flt, destDir, subPath)

\* lines 686-711 for one group whose subPath map is sp.subPath
groupPairs(p, flt, st, destDir, sp) ==
    {[fs |-> e.fs, err |-> e.err, log |-> e.log, walkErr |-> e.walkErr,
      groups |-> st.groups \ {destDir}] :
        e \in runPairs({[fs |-> st.fs, err |-> NilErr, log |-> st.log,
                         walkErr |-> st.walkErr \/ sp.walkErr, todo |-> DOMAIN sp.subPath]},
                       p, flt, destDir, sp.subPath)}

\* lines 660-711 for one group, from a state [fs, err, log, walkErr, groups]
copyGroup(p, flt, st, destDir) ==
    groupPairs(p, flt, st, destDir,
               buildSubPath(p, st.fs, flt, p.DestDirSrcs[destDir],
                            [subPath |-> EmptyMap, walkErr |-> FALSE]))

\* range over p.DestDirSrcs (line 659) visits the groups in any order
groupsDone(st) == st.err.kind # "nil" \/ st.groups = {}

RECURSIVE runGroups(_, _, _)
runGroups(states, p, flt) ==
    IF \A st \in states : groupsDone(st) THEN states
    ELSE runGroups(UNION {IF groupsDone(st) THEN {st}
                          ELSE UNION {copyGroup(p, flt, st, g) : g \in st.groups}
                          : st \in states},
                   p, flt)

\* lines 652-654: the guard of Copy
notAnalyzed(p) == ~p.Analyzed

\* Program.Copy(): the set of [fs, err, log, walkErr] it can end with
Copy(p, fsys, flt) ==
    IF notAnalyzed(p)
        THEN {[fs |-> fsys, err |-> [kind |-> "paths not analyzed yet", path |-> <<>>],
               log |-> {}, walkErr |-> FALSE]}
    ELSE {[fs |-> e.fs, err |-> e.err, log |-> e.log, walkErr |-> e.walkErr] :
            e \in runGroups({[fs |-> fsys, err |-> NilErr, log |-> {}, walkErr |-> FALSE,
                              groups |-> DOMAIN p.DestDirSrcs]}, p, flt)}

------------------------------------------------------------------------------
(* UI.HandleEvent and UI.Layout *)

NoAnalyze == [called |-> FALSE, err |-> NilErr]
NoCopy == [called |-> FALSE, err |-> NilErr, log |-> {}, walkErr |-> FALSE,
           fsBefore |-> <<>>, radio |-> "", analyzed |-> FALSE, done |-> FALSE]

\* lines 121-135: the Analyze button; [p, analyze]
analyzeDone(r) ==
    [p |-> IF r.err.kind = "nil" THEN [r.p EXCEPT !.Analyzed = TRUE] ELSE r.p,
     analyze |-> [called |-> TRUE, err |-> r.err]]

onAnalyze(p, ui, fsys, flt) ==
    analyzeDone(AnalyzeInput([p EXCEPT !.InputText = ui.InputEditor], fsys, flt, ui.InputEditor))

\* lines 136-143 and 144-150: the OK and the Cancel button
onReset(p) == [p EXCEPT !.Analyzed = FALSE, !.Done = FALSE]

\* the Run button marking the plan done whatever Copy returns
onRunAlwaysDone(p, ui, fsys, out) ==
    [p |-> [p EXCEPT !.Done = TRUE],
     fs |-> out.fs,
     copy |-> [called |-> TRUE, err |-> out.err, log |-> out.log, walkErr |-> out.walkErr,
               fsBefore |-> fsys, radio |-> ui.MethodRadio,
               analyzed |-> p.Analyzed, done |-> p.Done]]

\* lines 151-160: the Run button, for one way out Copy can end
onRun(p, ui, fsys, out) ==
    [p |-> IF out.err.kind = "nil" THEN [p EXCEPT !.Done = TRUE] ELSE p,
     fs |-> out.fs,
     copy |-> [called |-> TRUE, err |-> out.err, log |-> out.log, walkErr |-> out.walkErr,
               fsBefore |-> fsys, radio |-> ui.MethodRadio,
               analyzed |-> p.Analyzed, done |-> p.Done]]

\* lines 113-117: the fields read from the editors
fromEditors(p, ui) ==
    [p EXCEPT !.PathSeps = Fields(ui.PathSeparatorEditor),
              !.PathKeys = Fields(ui.PathKeyEditor),
              !.NameSeps = Fields(ui.NameSeparatorEditor),
              !.NameKeys = Fields(ui.NameKeyEditor),
              !.DestPattern = ui.DestEditor]

\* lines 136-182: the OK, Cancel and Run buttons, after the Analyze button
\* has given a = [p, analyze]; Run ends with one of the ways out of Copy
frameAfter(a, ui, fsys, flt, clicks) ==
    IF "Run" \in clicks
        THEN {[p |-> r.p, ui |-> ui, fs |-> r.fs, analyze |-> a.analyze, copy |-> r.copy] :
                r \in {onRun(a.p, ui, fsys, out) : out \in Copy(a.p, fsys, flt)}}
    ELSE {[p |-> a.p, ui |-> ui, fs |-> fsys, analyze |-> a.analyze, copy |-> NoCopy]}

resets(a, clicks) ==
    IF "OK" \in clicks \/ "Cancel" \in clicks THEN [a EXCEPT !.p = onReset(@)] ELSE a

\* UI.HandleEvent with the buttons of clicks reported clicked: the set of
\* [p, ui, fs, analyze, copy] the frame can end with
HandleEvent(p, ui, fsys, flt, clicks) ==
    frameAfter(resets(IF "Analyze" \in clicks THEN onAnalyze(fromEditors(p, ui), ui, fsys, flt)
                      ELSE [p |-> fromEditors(p, ui), analyze |-> NoAnalyze],
                      clicks),
               IF "OK" \in clicks THEN [ui EXCEPT !.InputEditor = <<>>] ELSE ui,
               fsys, flt, clicks)

\* lines 349-364 of UI.Layout: the buttons laid out, which are the ones the
\* next frame can report clicked
Layout(p) ==
    IF p.Done THEN {"OK"}
    ELSE IF p.Analyzed THEN {"Cancel", "Run"}
    ELSE {"Analyze"}

------------------------------------------------------------------------------
(* The world of the model *)

\* deepest path the filesystem may have for Run to be clicked
MaxDepth == 6

S_a == <<"a">>
S_b == <<"b">>
S_c == <<"c">>
S_g == <<"g">>
S_x == <<"x">>

\* the directory /a/b holds the file c/g; /x and /a/x are files
InitFS ==
    (<<>> :> DirNode)
    @@ (<<S_a>> :> DirNode)
    @@ (<<S_a, S_b>> :> DirNode)
    @@ (<<S_a, S_b, S_c>> :> DirNode)
    @@ (<<S_a, S_b, S_c, S_g>> :> FileNode(<<S_a, S_b, S_c, S_g>>, <<S_a, S_b, S_c, S_g>>))
    @@ (<<S_x>> :> FileNode(<<S_x>>, <<S_x>>))
    @@ (<<S_a, S_x>> :> FileNode(<<S_a, S_x>>, <<S_a, S_x>>))

Depth(fsys) == CHOOSE n \in 0..(MaxDepth + 8) :
                   (\E q \in DOMAIN fsys : Len(q) = n) /\ (\A q \in DOMAIN fsys : Len(q) <= n)

\* the lines an operator pastes: "/a/b", "/a/b/", "file:///x ", "/a/x", "/n"
Lines == { <<"/", "a", "/", "b">>,
           <<"/", "a", "/", "b", "/">>,
           <<"f", "i", "l", "e", ":", "/", "/", "/", "x", " ">>,
           <<"/", "a", "/", "x">>,
           <<"/", "n">> }

CRLF == <<"\r", "\n">>

\* the pasted texts: one line, or two lines of which the second is not
\* before the first in byte order, each ended by "\r\n"
Texts ==
    {l \o CRLF : l \in Lines}
    \cup {lm[1] \o CRLF \o lm[2] \o CRLF :
             lm \in {lm \in Lines \X Lines : lm[1] = lm[2] \/ Less(lm[1], lm[2])}}

\* the editors' texts: path separators, path keys, name separators, name
\* keys, destination pattern
Config(ps, pk, ns, nk, dest) ==
    [PathSeparatorEditor |-> ps, PathKeyEditor |-> pk, NameSeparatorEditor |-> ns,
     NameKeyEditor |-> nk, DestEditor |-> dest]

\* "/" | "_ ... N" | "_ ." | "..." | "/o"
ConfigPlain ==
    Config(<<"/">>, <<"_", " ", ".", ".", ".", " ", "N">>, <<"_", " ", ".">>,
           <<".", ".", ".">>, <<"/", "o">>)

\* "/" | "_ A B" | "_" | "V" | "/o/${A}": a path needs exactly three fragments
ConfigExact ==
    Config(<<"/">>, <<"_", " ", "A", " ", "B">>, <<"_">>, <<"V">>,
           <<"/", "o", "/", "$", "{", "A", "}">>)

\* "/" | "_ ... N" | "_ ." | "..." | " /o/$Z/$DATE": Z is bound by no key
ConfigUnknown ==
    Config(<<"/">>, <<"_", " ", ".", ".", ".", " ", "N">>, <<"_", " ", ".">>,
           <<".", ".", ".">>, <<" ", "/", "o", "/", "$", "Z", "/", "$", "D", "A", "T", "E">>)

\* "/" | "_ ... N" | "_ ." | "..." | "/a/$N": a destination inside a source
ConfigNested ==
    Config(<<"/">>, <<"_", " ", ".", ".", ".", " ", "N">>, <<"_", " ", ".">>,
           <<".", ".", ".">>, <<"/", "a", "/", "$", "N">>)

Fault(op, under) == [op |-> op, under |-> under]

\* the I/O failures a frame can meet: none, or a disk on which reading
\* /a/b/c, examining /x, making any directory and linking /x all fail
FaultChoices ==
    { {},
      {Fault("readdir", <<S_a, S_b, S_c>>), Fault("stat", <<S_x>>),
       Fault("mkdir", <<>>), Fault("link", <<S_x>>)} }

InitProgram ==
    [InputText |-> <<>>, PathSeps |-> <<>>, PathKeys |-> <<>>, NameSeps |-> <<>>,
     NameKeys |-> <<>>, DestPattern |-> <<>>, Method |-> "", Analyzed |-> FALSE,
     Done |-> FALSE, NotExists |-> <<>>, Invalids |-> <<>>, Srcs |-> <<>>,
     SrcIsDir |-> EmptyMap, SrcDirFileCount |-> EmptyMap, DestDir |-> EmptyMap,
     DestDirSrcs |-> EmptyMap, DestDirExists |-> EmptyMap, Today |-> <<>>]

NoLog == [analyze |-> NoAnalyze, copy |-> NoCopy]

\* no call of parseEnvs, and none of destDirectory, on its own
TokIdle ==
    [src |-> <<>>, seps |-> <<>>, keys |-> <<>>, done |-> FALSE,
     res |-> [err |-> "nil", vals |-> <<>>, bind |-> EmptyMap, envs |-> EmptyMap]]

DstIdle ==
    [src |-> <<>>, pattern |-> <<>>, env |-> EmptyMap, done |-> FALSE,
     res |-> [err |-> "nil", unknown |-> <<>>, destDir |-> <<>>]]

\* no walk of lines 482-497 on its own
CntIdle == [fs |-> InitFS, count |-> 0, done |-> FALSE, res |-> [count |-> 0, err |-> "nil"]]

\* main(), lines 865-915, with the editors holding the texts of c: nothing
\* analyzed, the method radio on "link"
InitMain(c) ==
    /\ Program = InitProgram
    /\ UI = [c @@ [InputEditor |-> <<>>, MethodRadio |-> "link"] EXCEPT !.InputEditor = <<>>]
    /\ fs = InitFS
    /\ last = NoLog

Init ==
    /\ \E c \in {ConfigPlain, ConfigExact, ConfigUnknown, ConfigNested} : InitMain(c)
    /\ tok = TokIdle
    /\ dst = DstIdle
    /\ cnt = CntIdle

\* one app.FrameEvent of UI.Loop: HandleEvent, then Layout. clicks are the
\* buttons reported clicked, all of them laid out by the last Layout; typed
\* is the text of the input editor after the frame's edits; flt the I/O
\* failures present while the frame runs; radio the method radio after Layout
FrameWith(clicks, typed, flt, radio) ==
    /\ clicks \subseteq Layout(Program)
    /\ "Run" \in clicks => Depth(fs) < MaxDepth
    /\ \E out \in HandleEvent(Program, [UI EXCEPT !.InputEditor = typed], fs, flt, clicks) :
         /\ Program' = out.p
         /\ UI' = [out.ui EXCEPT !.MethodRadio = radio]
         /\ fs' = out.fs
         /\ last' = [analyze |-> out.analyze, copy |-> out.copy]
         /\ UNCHANGED <<tok, dst, cnt>>

\* the operator pastes a text and clicks Analyze
Analyze ==
    \E typed \in Texts, flt \in FaultChoices :
        FrameWith({"Analyze"}, typed, flt, UI.MethodRadio)

Cancel == FrameWith({"Cancel"}, UI.InputEditor, {}, UI.MethodRadio)

Run == \E flt \in FaultChoices : FrameWith({"Run"}, UI.InputEditor, flt, UI.MethodRadio)

\* both clicks reach the same frame: Cancel is handled first
CancelRun == FrameWith({"Cancel", "Run"}, UI.InputEditor, {}, UI.MethodRadio)

OK == FrameWith({"OK"}, UI.InputEditor, {}, UI.MethodRadio)

\* a frame without a click, in which the operator picks the other method
PickMethod ==
    \E radio \in {"link", "copy"} :
        radio # UI.MethodRadio /\ FrameWith({}, UI.InputEditor, {}, radio)

Next == Analyze \/ Cancel \/ Run \/ CancelRun \/ OK \/ PickMethod

Spec == Init /\ [][Next]_vars


------------------------------------------------------------------------------
(* parseEnvs on its own *)

\* longest source text and longest key list handed to parseEnvs
MaxSrcLen == 4
MaxKeys == 4

SeqsUpTo(S, n) == UNION {[1..k -> S] : k \in 0..n}

\* the source texts are over "a" and "-", the separators "-" alone or " ",
\* "a-" and "-", the keys are A, B, "_" and "..."
InitTok ==
    /\ InitMain(ConfigPlain)
    /\ \E src \in SeqsUpTo({"a", "-"}, MaxSrcLen),
          seps \in { << <<"-">> >>, << <<" ">>, <<"a", "-">>, <<"-">> >> },
          keys \in SeqsUpTo({<<"A">>, <<"B">>, Discard, Divider}, MaxKeys) :
         tok = [TokIdle EXCEPT !.src = src, !.seps = seps, !.keys = keys]
    /\ dst = DstIdle
    /\ cnt = CntIdle

Tokenize ==
    /\ ~tok.done
    /\ tok' = [tok EXCEPT !.done = TRUE, !.res = parseEnvs(tok.src, tok.seps, tok.keys)]
    /\ UNCHANGED <<mainVars, dst, cnt>>

SpecTok == InitTok /\ [][Tokenize]_vars

------------------------------------------------------------------------------
(* destDirectory on its own *)

\* longest destination pattern handed to destDirectory
MaxPatLen == 6

\* the sources are "/s" and "s", the patterns over "/", "$", "A" and "B",
\* the environment empty or binding A
InitDest ==
    /\ InitMain(ConfigPlain)
    /\ tok = TokIdle
    /\ \E src \in { <<"/", "s">>, <<"s">> },
          pattern \in SeqsUpTo({"/", "$", "A", "B"}, MaxPatLen),
          env \in { EmptyMap, Put(EmptyMap, <<"A">>, <<"a">>) } :
         dst = [DstIdle EXCEPT !.src = src, !.pattern = pattern, !.env = env]
    /\ cnt = CntIdle

Resolve ==
    /\ ~dst.done
    /\ dst' = [dst EXCEPT !.done = TRUE, !.res = destDirectory(dst.src, dst.pattern, dst.env)]
    /\ UNCHANGED <<mainVars, tok, cnt>>

SpecDest == InitDest /\ [][Resolve]_vars


------------------------------------------------------------------------------
(* The counting walk on its own *)

\* how far below the cap of line 493 the count may stand before the walk
MaxBelowCap == 3

\* the files a walked directory /a may hold: one of its own, two in each of
\* its sub-directories b and c, and one two directories down in d/a
WalkFiles ==
    {<<S_a, S_a>>, <<S_a, S_b, S_a>>, <<S_a, S_b, S_b>>, <<S_a, S_c, S_a>>,
     <<S_a, S_c, S_b>>, <<S_a, <<"d">>, S_a, S_a>>}

\* the filesystem that holds /a, the files of files and their directories
TreeOf(files) ==
    [q \in {<<>>, <<S_a>>} \cup files
            \cup UNION {{Upto(f, k) : k \in 1..(Len(f) - 1)} : f \in files} |->
        IF q \in files THEN FileNode(q, q) ELSE DirNode]

\* the walk starts on any such tree with the count at most MaxBelowCap below
\* the cap: the files a larger directory holds ahead of these are counted
InitCount ==
    /\ InitMain(ConfigPlain)
    /\ tok = TokIdle
    /\ dst = DstIdle
    /\ \E files \in SUBSET WalkFiles, c \in (FileCountCap - MaxBelowCap)..FileCountCap :
         cnt = [CntIdle EXCEPT !.fs = TreeOf(files), !.count = c]

\* fs.WalkDir of lines 482-497 on the directory /a
Count ==
    /\ ~cnt.done
    /\ cnt' = [cnt EXCEPT !.done = TRUE,
                          !.res = countWalk(cnt.fs, {}, <<"/", "a">>, cnt.count)]
    /\ UNCHANGED <<mainVars, tok, dst>>

SpecCount == InitCount /\ [][Count]_vars

------------------------------------------------------------------------------
(* Properties of Program.Copy *)

\* the (source file, sub-path) pairs a Copy has processed
Pairs(log) == {<<e.s, e.sub>> : e \in log}

\* every path of f1 is in f2 with the same content
Unchanged(f1, f2) == \A q \in DOMAIN f1 : q \in DOMAIN f2 /\ f2[q] = f1[q]

\* the frame just run called Copy on an analyzed plan and Copy returned nil
CopyReturnedNil ==
    last.copy.called /\ last.copy.analyzed /\ last.copy.err.kind = "nil"

\* the ways a second Copy of the same plan can end, no I/O failure met
SecondRuns == Copy(Program, fs, {})

NoOverwrite(log) == \A e \in log : e.existed => e.act = "skip"

\* C1 (as amended): a pair whose destination exists is skipped, the path is
\* left unchanged and no error is raised for it, in the first run and in a
\* second run of the same plan; the second run leaves the tree identical and
\* returns no error whenever it processes the same pairs as the first
C1_NeverOverwrites ==
    /\ last.copy.called =>
         Unchanged(last.copy.fsBefore, fs) /\ NoOverwrite(last.copy.log)
    /\ CopyReturnedNil =>
         \A o \in SecondRuns :
            /\ Unchanged(fs, o.fs)
            /\ NoOverwrite(o.log)
            /\ Pairs(o.log) = Pairs(last.copy.log) => o.fs = fs /\ o.err.kind = "nil"

\* C1 witness: a run of a plan that an earlier run has materialized: every
\* destination is there, one of them a link of its source made earlier
C1_SecondRunSkipsAll ==
    /\ CopyReturnedNil
    /\ fs = last.copy.fsBefore
    /\ \A e \in last.copy.log : e.act = "skip"
    /\ \E e \in last.copy.log : e.d # e.s /\ fs[Segs(e.d)] = fs[Segs(e.s)]

\* C1 (as stated): nothing existing is overwritten, and a second run of the
\* same plan leaves the tree as the first run left it and returns no error,
\* even after a first run whose walks all succeeded
C1_SecondRunIdentical ==
    /\ last.copy.called =>
         Unchanged(last.copy.fsBefore, fs) /\ NoOverwrite(last.copy.log)
    /\ CopyReturnedNil /\ ~last.copy.walkErr =>
         \A o \in SecondRuns : o.fs = fs /\ o.err.kind = "nil"

------------------------------------------------------------------------------
(* Properties of Program.AnalyzeInput *)

Range(f) == {f[i] : i \in DOMAIN f}

\* the frame just run called AnalyzeInput and it returned nil
AnalyzeReturnedNil == last.analyze.called /\ last.analyze.err.kind = "nil"

TokenizationErrors == {"multiple key divider", "too many values", "not enough values"}

\* the existing paths of the analyzed text
Existing ==
    {src \in {TrimSpace(l) : l \in Range(extractPaths(Program.InputText))} :
        Stat(fs, {}, src).err = "nil"}

\* the error of tokenizing src, "nil" when there is none
TokenizeErr(src) == ParseEnvsFromSrc(Program, src).err

\* src is recorded in the invalid list with the reason
RecordedInvalid(src, reason) ==
    \E i \in DOMAIN Program.Invalids :
        Program.Invalids[i].src = src /\ Program.Invalids[i].reason = reason

\* the sources listed in the destination groups
Grouped == UNION {Range(Program.DestDirSrcs[g]) : g \in DOMAIN Program.DestDirSrcs}

\* C2 (as stated): no analysis returns a tokenization error; a path that
\* exists and whose tokenization fails is recorded in the invalid list with
\* the reason, and every other existing path whose destination resolves is
\* in a group of the plan that is returned
C2_TokenizationRecoverable ==
    last.analyze.called /\ (\E src \in Existing : TokenizeErr(src) # "nil") =>
        /\ last.analyze.err.kind \notin TokenizationErrors
        /\ Program.Analyzed
        /\ \A src \in Existing :
              IF TokenizeErr(src) # "nil" THEN RecordedInvalid(src, TokenizeErr(src))
              ELSE src \in Grouped \/ RecordedInvalid(src, "unknown environ variable")

\* the destination of src resolves: tokenization and expansion both succeed
Resolves(src) ==
    /\ TokenizeErr(src) = "nil"
    /\ destDirectory(src, Program.DestPattern,
                     Put(ParseEnvsFromSrc(Program, src).env, DATE, Program.Today)).err = "nil"

\* the groups that list src
GroupsOf(src) == {g \in DOMAIN Program.DestDirSrcs : src \in Range(Program.DestDirSrcs[g])}

\* C7: after a successful analysis every existing source whose destination
\* resolves is listed by exactly one group, the groups list exactly those
\* sources, and no not-found or invalid path is listed by a group
C7_Grouping ==
    AnalyzeReturnedNil =>
        /\ \A src \in Existing : Resolves(src) => Cardinality(GroupsOf(src)) = 1
        /\ Grouped = {src \in Existing : Resolves(src)}
        /\ Grouped \cap Range(Program.NotExists) = {}
        /\ Grouped \cap {Program.Invalids[i].src : i \in DOMAIN Program.Invalids} = {}

\* C7 witness: a successful analysis of a text that lists an existing path on
\* two lines: one group lists it, twice
C7_SamePathTwice ==
    /\ AnalyzeReturnedNil
    /\ \E g \in DOMAIN Program.DestDirSrcs :
          /\ Len(Program.DestDirSrcs[g]) = 2
          /\ Program.DestDirSrcs[g][1] = Program.DestDirSrcs[g][2]

------------------------------------------------------------------------------
(* Properties of the materialization *)

\* the entries of the files the run has created
Created(log) == {e \in log : e.act \notin {"skip", "fail"}}

\* C3 (as stated): every file a run creates is created by the method selected
\* when Run is triggered: a hard link of the source (the same inode) under
\* link, a new file with the source's bytes under copy
C3_MethodSelected ==
    last.copy.called =>
        \A e \in Created(last.copy.log) :
            /\ e.act = last.copy.radio
            /\ last.copy.radio = "copy" =>
                   /\ fs[Segs(e.d)].ino # fs[Segs(e.s)].ino
                   /\ fs[Segs(e.d)].data = fs[Segs(e.s)].data
            /\ last.copy.radio = "link" => fs[Segs(e.d)] = fs[Segs(e.s)]

\* the directory sources of the group of destDir that contain the file at s
DirSourcesOf(destDir, s) ==
    {src \in Range(Get(Program.DestDirSrcs, destDir, <<>>)) :
        Program.SrcIsDir[src] /\ IsPrefix(Segs(src), Segs(s))}

\* where structure preservation puts the file at s of the directory source
\* src: destDir, then the base name of src, then the path of s inside src
Preserved(destDir, src, s) ==
    Segs(destDir) \o <<Segs(src)[Len(Segs(src))]>> \o From(Segs(s), Len(Segs(src)))

\* C4 (as stated): every file of a directory source, however the source is
\* spelled, is materialized at the group's directory joined with the source's
\* base name and the file's path inside the source
C4_StructurePreserved ==
    last.copy.called =>
        \A e \in last.copy.log :
            \A src \in DirSourcesOf(e.destDir, e.s) :
                Segs(e.d) = Preserved(e.destDir, src, e.s)

\* a Copy fails with the state error and touches nothing
Rejected(o, fsys) == o.err.kind = "paths not analyzed yet" /\ o.fs = fsys

\* C5 (as stated): Copy is accepted only in the state Analyzed: a call made
\* before a successful analysis, after a cancel, or in the state Done is
\* rejected with the state error and no filesystem operation
C5_OnlyWhenAnalyzed ==
    /\ last.copy.called /\ (~last.copy.analyzed \/ last.copy.done) =>
           last.copy.err.kind = "paths not analyzed yet" /\ fs = last.copy.fsBefore
    /\ ~Program.Analyzed \/ Program.Done =>
           \A o \in Copy(Program, fs, {}) : Rejected(o, fs)

\* C9 (as stated): a run that has met a filesystem failure, in a walk of a
\* directory source or on a pair, returns an error
C9_FailuresFatal ==
    last.copy.called /\ (last.copy.walkErr \/ \E e \in last.copy.log : e.act = "fail") =>
        last.copy.err.kind # "nil"

------------------------------------------------------------------------------
(* Properties of the lifecycle *)

\* the state of the batch: Idle, Analyzed or Done
St(p) == IF p.Done THEN "Done" ELSE IF p.Analyzed THEN "Analyzed" ELSE "Idle"

\* the steps of the lifecycle
Lifecycle ==
    {<<"Idle", "Idle">>, <<"Idle", "Analyzed">>,
     <<"Analyzed", "Analyzed">>, <<"Analyzed", "Idle">>, <<"Analyzed", "Done">>,
     <<"Done", "Done">>, <<"Done", "Idle">>}

\* one frame keeps to the lifecycle; last' tells what the frame has called
LifecycleStep ==
    /\ <<St(Program), St(Program')>> \in Lifecycle
    /\ St(Program) # "Done" /\ St(Program') = "Done" =>
          /\ St(Program) = "Analyzed"
          /\ last'.copy.called /\ last'.copy.analyzed /\ last'.copy.err.kind = "nil"
    /\ last'.analyze.called => St(Program) = "Idle"
    /\ last'.analyze.called /\ last'.analyze.err.kind # "nil" => St(Program') = "Idle"
    /\ last'.analyze.called /\ last'.analyze.err.kind = "nil" => St(Program') = "Analyzed"
    /\ last'.copy.called /\ last'.copy.err.kind # "nil" =>
          /\ St(Program') # "Done"
          /\ last'.copy.analyzed => St(Program') = "Analyzed"
    /\ St(Program) = "Analyzed" /\ St(Program') = "Idle" => ~last'.analyze.called

\* C6: over every sequence of Analyze, Cancel, Run and OK frames the state
\* goes Idle -> Analyzed -> Idle or Done, and Done -> Idle; Done is entered
\* only by a materialization that succeeds from Analyzed, an analysis is
\* accepted only in Idle, a failed analysis leaves Idle and a failed
\* materialization leaves Analyzed, never Done
C6_Lifecycle == [][LifecycleStep]_vars

\* C6 witness: a materialization taken from Analyzed has failed and the
\* state is still Analyzed
C6_FailedRunStaysAnalyzed ==
    /\ last.copy.called /\ last.copy.analyzed /\ last.copy.err.kind # "nil"
    /\ St(Program) = "Analyzed"

------------------------------------------------------------------------------
(* Properties of destDirectory *)

\* the references of the pattern whose names are absent from the
\* environment, from left to right
AbsentRefs ==
    SelectSeq(Expand(TrimSpace(dst.pattern), dst.env).refs, LAMBDA k : k \notin DOMAIN dst.env)

\* C8 (as stated): when the pattern references names absent from the
\* environment, destDirectory fails and the error names the first of them
C8_FirstUnknownNamed ==
    dst.done /\ IsAbs(dst.src) /\ AbsentRefs # <<>> =>
        /\ dst.res.err = "unknown environ variable"
        /\ dst.res.unknown = <<"$">> \o AbsentRefs[1]

------------------------------------------------------------------------------
(* Properties of parseEnvs *)

\* the indices of "..." in the key list handed to parseEnvs
Dividers == {i \in DOMAIN tok.keys : tok.keys[i] = Divider}

\* the number of keys left (L) and right (R) of the divider, and of fragments
KeysLeft == MinOr(Dividers, 1) - 1
KeysRight == Len(tok.keys) - MinOr(Dividers, 1)
Fragments == Len(tok.res.vals)

\* the fragment (1-based) the key at index i of the list stands for: the
\* i-th for a left key, the same distance from the end for a right key
FragmentAt(i) == IF i <= KeysLeft THEN i ELSE Fragments - (Len(tok.keys) - i)

\* the indices of the named keys of the list
Named == {i \in DOMAIN tok.keys : tok.keys[i] \notin {Discard, Divider}}

\* the assignments of lines 763-779 in the order they are made: the left keys
\* from the first to the last, then the right keys from the last to the first
Before(i, j) == IF j <= KeysLeft THEN i < j ELSE i <= KeysLeft \/ i > j

\* the index whose assignment to its name is the last one made
Prevails(i) == \A j \in Named : tok.keys[j] = tok.keys[i] /\ j # i => Before(j, i)

\* parseEnvs has been called with exactly one "..." in the key list
OneDivider == tok.done /\ Cardinality(Dividers) = 1

\* no fragment between the leading L and the trailing R is bound, and
\* neither "_" nor "..." is a key of the result
MiddleUnbound ==
    /\ \A k \in DOMAIN tok.res.bind :
          tok.res.bind[k] <= KeysLeft \/ tok.res.bind[k] > Fragments - KeysRight
    /\ Discard \notin DOMAIN tok.res.envs /\ Divider \notin DOMAIN tok.res.envs

\* C10 (as amended): with one "...", L keys before it, R after it and n
\* fragments, parseEnvs fails with not enough values if n < L + R; otherwise
\* every named key stands for its fragment, counted from the start on the
\* left and from the end on the right, and a name is bound to the fragment
\* of the occurrence assigned last; nothing else is bound
C10_WildcardBinding ==
    OneDivider =>
        IF Fragments < KeysLeft + KeysRight THEN tok.res.err = "not enough values"
        ELSE /\ tok.res.err = "nil"
             /\ DOMAIN tok.res.envs = {tok.keys[i] : i \in Named}
             /\ \A i \in Named :
                   Prevails(i) =>
                       /\ tok.res.bind[tok.keys[i]] = FragmentAt(i)
                       /\ tok.res.envs[tok.keys[i]] = tok.res.vals[FragmentAt(i)]
             /\ MiddleUnbound

\* C10 witness: keys on both sides of "...", a fragment between them that is
\* discarded, and a name used on both sides, bound to the trailing fragment
C10_MiddleDiscarded ==
    /\ OneDivider /\ tok.res.err = "nil"
    /\ KeysLeft >= 1 /\ KeysRight >= 1 /\ Fragments > KeysLeft + KeysRight
    /\ \E i, j \in Named : i <= KeysLeft /\ j > KeysLeft /\ tok.keys[i] = tok.keys[j]
                           /\ tok.res.bind[tok.keys[i]] = FragmentAt(j)

\* C10 (as stated): every left key is bound to the fragment at its index and
\* every right key to the fragment at its distance from the end
C10_EveryKeyBound ==
    OneDivider =>
        IF Fragments < KeysLeft + KeysRight THEN tok.res.err = "not enough values"
        ELSE /\ tok.res.err = "nil"
             /\ \A i \in Named : tok.res.envs[tok.keys[i]] = tok.res.vals[FragmentAt(i)]
             /\ MiddleUnbound

------------------------------------------------------------------------------
(* Properties of the file counts *)

\* the number of non-directory entries, at any depth, of the directory src
FilesUnder(fsys, src) ==
    Cardinality({q \in DOMAIN fsys : fsys[q].kind = "file" /\ IsPrefix(Segs(src), q)})

\* the valid directory sources of the plan
DirSources == {src \in Grouped : Program.SrcIsDir[src]}

\* C11 (as stated): after a successful analysis the count recorded for a
\* valid directory source with at most 1000 files is the number of its files
C11_ExactCount ==
    AnalyzeReturnedNil =>
        \A src \in DirSources :
            FilesUnder(fs, src) <= FileCountCap =>
                Get(Program.SrcDirFileCount, src, 0) = FilesUnder(fs, src)

------------------------------------------------------------------------------
(* Properties of the split of parseEnvs *)

\* C12 (as stated, for the texts parseEnvs is handed, which are not empty):
\* the fragments of a text are one more than the separator occurrences
\* consumed, also when the text ends or starts with a separator
C12_OneMoreThanSeparators ==
    tok.done /\ tok.src # <<>> =>
        Len(tok.res.vals) = sepsConsumed(tok.src, tok.seps) + 1

------------------------------------------------------------------------------
(* Properties of the counting walk *)

\* the files the walked directory holds, those counted ahead included
FilesInAll == cnt.count + FilesUnder(cnt.fs, <<"/", "a">>)

\* C13: a walk of a directory with more than 1000 files, wherever they lie
\* in its sub-directories, ends with a count above 1000; the skip returned on
\* a file never leaves the count at 1000 or less
C13_CappedCount ==
    cnt.done /\ FilesInAll > FileCountCap =>
        cnt.res.count > FileCountCap /\ cnt.res.err = "nil"

\* C13 witness: the walk has passed the cap inside a sub-directory, has
\* skipped files there, and has gone on counting elsewhere
C13_SkippedSiblings ==
    /\ cnt.done /\ cnt.count < FileCountCap
    /\ cnt.res.count > FileCountCap + 1
    /\ cnt.res.count < FilesInAll

------------------------------------------------------------------------------
(* Properties of the iteration order *)

\* the same paths with the same kind and, for files, the same bytes
SameContent(f1, f2) ==
    /\ DOMAIN f1 = DOMAIN f2
    /\ \A q \in DOMAIN f1 :
          /\ f1[q].kind = f2[q].kind
          /\ f1[q].kind = "file" => f1[q].data = f2[q].data

\* C14 (as stated): a run that has succeeded has left every path with the
\* content that every other order of the groups and of the pairs leaves there
C14_OrderIndependent ==
    CopyReturnedNil /\ ~last.copy.walkErr =>
        \A o \in Copy(Program, last.copy.fsBefore, {}) :
            o.err.kind = "nil" => SameContent(o.fs, fs)

====
